---- MODULE Spec2Model ----
(***************************************************************************)
(* DoubleBufferedSharedMemory<T> (src/src/lib.rs), T = u8: two shared      *)
(* memory segments, an active index, a write permit (bool + condvar) and a *)
(* read permit (counter + condvar), used by writer and reader threads of   *)
(* one process.                                                            *)
(*                                                                         *)
(* Granularity.  A permit operation runs under its Mutex and touches only  *)
(* the permit, so it is one atomic step; cvar.wait is membership of the    *)
(* gate's wait set.  copy_from_slice and the deserializer's pass over the  *)
(* raw slice are not atomic: each has a begin and an end step, and a read  *)
(* that overlaps a copy into the same segment (a data race) may return any *)
(* byte-wise mixture of the contents the segment had during the read.      *)
(*                                                                         *)
(* write() and read() block in acquire for as long as the permit is taken, *)
(* so what they return is stated for the calls that return.                *)
(***************************************************************************)
EXTENDS Integers, Sequences, FiniteSets, TLC

\* ------------------------------------------------------------- bounds
\* write() calls that are started, counting those in progress
MaxWrites == 2
\* calls of the public drop() method
MaxDrops == 2

\* ------------------------------------------------------------- threads, inputs
Writers == {"w1", "w2"}
Readers == {"r1", "r2"}
Threads == Writers \cup Readers

\* shapes a channel is constructed with
Shapes == {<<1, 1, 1>>, <<1, 1, 2>>}

RECURSIVE Product(_)
Product(s) == IF s = <<>> THEN 1 ELSE Head(s) * Product(Tail(s))

\* the arrays handed to write(): for either channel shape some fit and some
\* have another serialized length
Arrays == {[dim |-> <<1, 1, 1>>, data |-> <<1>>],
           [dim |-> <<1, 1, 1>>, data |-> <<2>>],
           [dim |-> <<1, 1, 2>>, data |-> <<1, 2>>]}

NoArray == [dim |-> <<>>, data |-> <<>>]
NoResult == [op |-> "none", kind |-> "None"]

\* ------------------------------------------------------------- codec
\* bincode 1.x, fixed-width little-endian integers.  Lengths stay below
\* 2^24 in this model, so the five high bytes of a u64 are zero.
Huge == 256 * 65536

U64LE(n) == <<n % 256, (n \div 256) % 256, (n \div 65536) % 256, 0, 0, 0, 0, 0>>

RECURSIVE U64Seq(_)
U64Seq(s) == IF s = <<>> THEN <<>> ELSE U64LE(Head(s)) \o U64Seq(Tail(s))

\* mem::size_of::<T>() for T = u8
dtype_size == 1

\* ArrayD::<T>::zeros(shape)
Zeros(shape) == [dim |-> shape, data |-> [i \in 1..Product(shape) |-> 0]]

\* bincode::serialize(&ArrayD<u8>): version byte, the dimensions as a
\* sequence of u64, the elements as a sequence of u8
Serialize(a) ==
    <<1>> \o U64LE(Len(a.dim)) \o U64Seq(a.dim) \o U64LE(Len(a.data)) \o a.data

\* the u64 at bytes off..off+7 of b (Huge when it does not fit the model's integers)
ReadU64(b, off) ==
    IF \E i \in 3..7 : b[off + i] # 0
    THEN Huge
    ELSE b[off] + 256 * b[off + 1] + 65536 * b[off + 2]

DeserErr(m) == [ok |-> FALSE, msg |-> m, arr |-> NoArray]

\* bincode::deserialize::<ArrayD<u8>>(bytes): trailing bytes are allowed, a
\* short input, a version other than 1 or a shape that does not match the
\* number of elements is an error
Deserialize(b) ==
    IF Len(b) < 1 THEN DeserErr("eof")
    ELSE IF b[1] # 1 THEN DeserErr("unknown array version")
    ELSE IF Len(b) < 9 THEN DeserErr("eof")
    ELSE LET n == ReadU64(b, 2) IN
         IF 9 + 8 * n + 8 > Len(b) THEN DeserErr("eof")
         ELSE LET dim == [i \in 1..n |-> ReadU64(b, 10 + 8 * (i - 1))]
                  m == ReadU64(b, 10 + 8 * n)
                  d0 == 10 + 8 * n + 8
              IN IF d0 - 1 + m > Len(b) THEN DeserErr("eof")
                 ELSE IF \E i \in 1..n : dim[i] >= Huge THEN DeserErr("shape")
                 ELSE IF Product(dim) # m THEN DeserErr("shape")
                 ELSE [ok |-> TRUE, msg |-> "",
                       arr |-> [dim |-> dim, data |-> [i \in 1..m |-> b[d0 - 1 + i]]]]

\* the byte sequences of length n that take each byte from some member of S
RECURSIVE Mix(_, _)
Mix(S, n) ==
    IF n = 0 THEN {<<>>}
    ELSE {Append(p, x) : p \in Mix(S, n - 1), x \in {s[n] : s \in S}}

\* what a pass over a slice can read when the segment held the contents S
\* during the pass
Readable(S, n) == IF Cardinality(S) = 1 THEN S ELSE Mix(S, n)

\* the serialized form of each input array
Serialized == [a \in Arrays |-> Serialize(a)]

\* ------------------------------------------------------------- state
VARIABLES
    phase,          \* "init" before new, "live" with a channel, "failed" when new returned Err
    regions,        \* the OS regions "{name_base}_i" this process has created
    cfg_shape,      \* the shape new was called with
    buffers,        \* self.buffers: the segments' bytes, in order
    active_index,   \* self.active_index
    size,           \* self.size
    read_permits,   \* the usize under self.read_permits' Mutex
    write_permits,  \* the bool under self.write_permits' Mutex
    rwait,          \* threads parked in cvar.wait of the read gate
    wwait,          \* threads parked in cvar.wait of the write gate
    pc,             \* each thread's position
    warg,           \* write(): the array argument
    wtarget,        \* write(): index of active_buffer (line 156)
    ridx,           \* read(): read_index (line 183)
    rseen,          \* read(): contents the segment had while the slice is being read
    rval,           \* read(): deserialized_data
    ret,            \* history: the value the step just taken returned to its caller, if any
    nwrites,        \* history: number of writes that flipped active_index
    last_arr,       \* history: the array of the latest such write
    rfresh,         \* history: no write flipped active_index since the thread's read() was called
    ndrops          \* history: number of drop() calls

vars == <<phase, regions, cfg_shape, buffers, active_index, size,
          read_permits, write_permits, rwait, wwait, pc, warg, wtarget,
          ridx, rseen, rval, ret, nwrites, last_arr, rfresh, ndrops>>

chan == <<buffers, active_index, size, read_permits, write_permits>>
gates == <<read_permits, write_permits, rwait, wwait>>
wlocals == <<warg, wtarget>>
rlocals == <<ridx, rseen, rval, rfresh>>
ctor == <<phase, regions, cfg_shape>>
hist == <<nwrites, last_arr, ndrops>>

Init ==
    /\ phase = "init"
    /\ regions = {}
    /\ cfg_shape = <<>>
    /\ buffers = <<>>
    /\ active_index = 0
    /\ size = 0
    /\ read_permits = 0
    /\ write_permits = FALSE
    /\ rwait = {}
    /\ wwait = {}
    /\ pc = [t \in Threads |-> "idle"]
    /\ warg = [w \in Writers |-> NoArray]
    /\ wtarget = [w \in Writers |-> 0]
    /\ ridx = [r \in Readers |-> 0]
    /\ rseen = [r \in Readers |-> {}]
    /\ rval = [r \in Readers |-> NoArray]
    /\ ret = NoResult
    /\ nwrites = 0
    /\ last_arr = NoArray
    /\ rfresh = [r \in Readers |-> FALSE]
    /\ ndrops = 0

\* ------------------------------------------------------------- new
base_size_of(shape) == shape[1] * shape[2] * shape[3] * dtype_size

\* a calc_extra_size that returns the whole serialized length
calc_extra_size_whole(base_size, shape) == Len(Serialize(Zeros(shape)))

\* calc_extra_size on the Ok path: serialized length of the zero sample minus base_size
calc_extra_size(base_size, shape) == Len(Serialize(Zeros(shape))) - base_size

\* line 75: Mutex::new(1), one read at a time
read_capacity == 1

\* a fresh POSIX shared memory region of n bytes is zero-filled
FreshSegment(n) == [i \in 1..n |-> 0]

\* new returns Err from calc_extra_size: the sample could not be serialized
NewSerializeFails(shape) ==
    /\ phase' = "failed"
    /\ ret' = [op |-> "new", kind |-> "SerializationError", msg |-> "codec",
               expected |-> base_size_of(shape), actual |-> Len(Zeros(shape).data)]
    /\ cfg_shape' = shape
    /\ UNCHANGED <<regions, chan, rwait, wwait>>

\* new returns Err from create() of segment i and the segments created
\* before it stay allocated
NewCreateFailsLeaks(shape, i) ==
    /\ phase' = "failed"
    /\ ret' = [op |-> "new", kind |-> "ShmemError", at |-> i]
    /\ cfg_shape' = shape
    /\ regions' = {j \in {0, 1} : j < i}
    /\ UNCHANGED <<chan, rwait, wwait>>

\* new returns Err from create() of segment i: the Vec holding the segments
\* created so far is dropped, which releases them
NewCreateFails(shape, i) ==
    /\ phase' = "failed"
    /\ ret' = [op |-> "new", kind |-> "ShmemError", at |-> i]
    /\ cfg_shape' = shape
    /\ regions' = {}
    /\ UNCHANGED <<chan, rwait, wwait>>

NewOk(shape) ==
    LET base_size == base_size_of(shape)
        extra_size == calc_extra_size(base_size, shape)
        sz == base_size + extra_size
    IN /\ phase' = "live"
       /\ ret' = [op |-> "new", kind |-> "Ok"]
       /\ cfg_shape' = shape
       /\ regions' = {0, 1}
       /\ buffers' = <<FreshSegment(sz), FreshSegment(sz)>>
       /\ active_index' = 0
       /\ size' = sz
       /\ read_permits' = read_capacity
       /\ write_permits' = TRUE
       /\ rwait' = {}
       /\ wwait' = {}

New ==
    /\ phase = "init"
    /\ \E shape \in Shapes :
          \/ NewSerializeFails(shape)
          \/ \E i \in {0, 1} : NewCreateFails(shape, i)
          \/ NewOk(shape)
    /\ UNCHANGED <<pc, wlocals, rlocals, hist>>

\* ------------------------------------------------------------- the gates
\* line 98 without the assignment: the permit stays as it was
ClaimedWritePermitKept(permit) == permit

\* line 98: *permit = false
ClaimedWritePermit(permit) == FALSE

\* line 116 without the decrement
DecrementedReadPermitKept(permit) == permit

\* line 116: *permit -= 1
DecrementedReadPermit(permit) == permit - 1

\* acquire_write_permit on a gate shared with the readers: the writer also
\* waits while a read holds its permit
acquire_write_permit_shared(w) ==
    /\ pc[w] = "w_acquire"
    /\ w \notin wwait
    /\ IF write_permits /\ read_permits # 0
       THEN /\ write_permits' = ClaimedWritePermit(write_permits)
            /\ pc' = [pc EXCEPT ![w] = "w_body"]
            /\ UNCHANGED wwait
       ELSE /\ wwait' = wwait \cup {w}
            /\ UNCHANGED <<write_permits, pc>>
    /\ ret' = NoResult
    /\ UNCHANGED <<ctor, buffers, active_index, size, read_permits, rwait,
                   wlocals, rlocals, hist>>

\* acquire_write_permit: claim the permit, or park in cvar.wait
acquire_write_permit(w) ==
    /\ pc[w] = "w_acquire"
    /\ w \notin wwait
    /\ IF write_permits
       THEN /\ write_permits' = ClaimedWritePermit(write_permits)
            /\ pc' = [pc EXCEPT ![w] = "w_body"]
            /\ UNCHANGED wwait
       ELSE /\ wwait' = wwait \cup {w}
            /\ UNCHANGED <<write_permits, pc>>
    /\ ret' = NoResult
    /\ UNCHANGED <<ctor, buffers, active_index, size, read_permits, rwait,
                   wlocals, rlocals, hist>>

\* release_write_permit without line 106: the permit is set, nobody is woken
release_write_permit_silent ==
    /\ write_permits' = TRUE
    /\ wwait' = wwait

\* release_write_permit: *permit = true; cvar.notify_all()
release_write_permit ==
    /\ write_permits' = TRUE
    /\ wwait' = {}

\* acquire_read_permit on a gate that gives way: a thread takes the permit
\* only when no other thread is contending for it
acquire_read_permit_yielding(r) ==
    /\ pc[r] = "r_acquire"
    /\ r \notin rwait
    /\ IF read_permits # 0 /\ \A q \in Readers \ {r} : pc[q] # "r_acquire"
       THEN /\ read_permits' = DecrementedReadPermit(read_permits)
            /\ pc' = [pc EXCEPT ![r] = "r_index"]
            /\ UNCHANGED rwait
       ELSE /\ rwait' = rwait \cup {r}
            /\ UNCHANGED <<read_permits, pc>>
    /\ ret' = NoResult
    /\ UNCHANGED <<ctor, buffers, active_index, size, write_permits, wwait,
                   wlocals, rlocals, hist>>

\* acquire_read_permit: take one permit, or park in cvar.wait
acquire_read_permit(r) ==
    /\ pc[r] = "r_acquire"
    /\ r \notin rwait
    /\ IF read_permits # 0
       THEN /\ read_permits' = DecrementedReadPermit(read_permits)
            /\ pc' = [pc EXCEPT ![r] = "r_index"]
            /\ UNCHANGED rwait
       ELSE /\ rwait' = rwait \cup {r}
            /\ UNCHANGED <<read_permits, pc>>
    /\ ret' = NoResult
    /\ UNCHANGED <<ctor, buffers, active_index, size, write_permits, wwait,
                   wlocals, rlocals, hist>>

\* release_read_permit: *permit += 1; cvar.notify_all()
release_read_permit ==
    /\ read_permits' = read_permits + 1
    /\ rwait' = {}

\* Condvar::wait may return without a notification; the loop re-checks
SpuriousWakeup(t) ==
    /\ t \in wwait \cup rwait
    /\ wwait' = wwait \ {t}
    /\ rwait' = rwait \ {t}
    /\ ret' = NoResult
    /\ UNCHANGED <<ctor, chan, pc, wlocals, rlocals, hist>>

\* ------------------------------------------------------------- write
\* line 156: the segment write() copies into
WriteTarget(ai) == ai

\* line 165 without the flip
FlippedIndexSame(ai) == ai

\* line 165: self.active_index = 1 - self.active_index
FlippedIndex(ai) == 1 - ai

\* the threads that hold a slice into segment i
Copying(i) == {w \in Writers : pc[w] = "w_copy" /\ wtarget[w] = i}
Reading(i) == {r \in Readers : pc[r] = "r_read" /\ ridx[r] = i}

\* a thread calls write(&array)
WriteCall(w, a) ==
    /\ phase = "live"
    /\ pc[w] = "idle"
    /\ nwrites + Cardinality({v \in Writers : pc[v] \notin {"idle", "panicked"}}) < MaxWrites
    /\ pc' = [pc EXCEPT ![w] = "w_acquire"]
    /\ warg' = [warg EXCEPT ![w] = a]
    /\ ret' = NoResult
    /\ UNCHANGED <<ctor, chan, rwait, wwait, wtarget, rlocals, hist>>

\* lines 148-149, Err: bincode::serialize fails and `?` returns at once
WriteSerializeFails(w) ==
    /\ pc[w] = "w_body"
    /\ pc' = [pc EXCEPT ![w] = "idle"]
    /\ ret' = [op |-> "write", kind |-> "SerializationError", msg |-> "codec",
               expected |-> size, actual |-> Len(warg[w].data)]
    /\ warg' = [warg EXCEPT ![w] = NoArray]
    /\ UNCHANGED <<ctor, chan, rwait, wwait, wtarget, rlocals, hist>>

\* lines 151-154 without the release of line 152
WriteInvalidSizeKeepsPermit(w) ==
    /\ pc[w] = "w_body"
    /\ Len(Serialized[warg[w]]) # size
    /\ pc' = [pc EXCEPT ![w] = "idle"]
    /\ ret' = [op |-> "write", kind |-> "InvalidSize", expected |-> size,
               actual |-> Len(Serialized[warg[w]])]
    /\ warg' = [warg EXCEPT ![w] = NoArray]
    /\ UNCHANGED <<ctor, chan, rwait, wwait, wtarget, rlocals, hist>>

\* lines 151-154: the serialized length is not self.size
WriteInvalidSize(w) ==
    /\ pc[w] = "w_body"
    /\ Len(Serialized[warg[w]]) # size
    /\ release_write_permit
    /\ pc' = [pc EXCEPT ![w] = "idle"]
    /\ ret' = [op |-> "write", kind |-> "InvalidSize", expected |-> size,
               actual |-> Len(Serialized[warg[w]])]
    /\ warg' = [warg EXCEPT ![w] = NoArray]
    /\ UNCHANGED <<ctor, buffers, active_index, size, read_permits, rwait,
                   wtarget, rlocals, hist>>

\* line 156 on an empty Vec: index out of bounds, the thread panics
WriteIndexPanics(w) ==
    /\ pc[w] = "w_body"
    /\ Len(Serialized[warg[w]]) = size
    /\ WriteTarget(active_index) >= Len(buffers)
    /\ pc' = [pc EXCEPT ![w] = "panicked"]
    /\ warg' = [warg EXCEPT ![w] = NoArray]
    /\ ret' = NoResult
    /\ UNCHANGED <<ctor, chan, rwait, wwait, wtarget, rlocals, hist>>

\* lines 156-163: the slice over the active segment is taken and the copy begins
WriteCopyBegin(w) ==
    /\ pc[w] = "w_body"
    /\ Len(Serialized[warg[w]]) = size
    /\ WriteTarget(active_index) < Len(buffers)
    /\ wtarget' = [wtarget EXCEPT ![w] = WriteTarget(active_index)]
    /\ pc' = [pc EXCEPT ![w] = "w_copy"]
    /\ rseen' = [r \in Readers |->
                   IF r \in Reading(WriteTarget(active_index))
                   THEN rseen[r] \cup {Serialized[warg[w]]}
                   ELSE rseen[r]]
    /\ ret' = NoResult
    /\ UNCHANGED <<ctor, chan, rwait, wwait, warg, ridx, rval, rfresh, hist>>

\* line 163: copy_from_slice has stored every byte
WriteCopyEnd(w) ==
    /\ pc[w] = "w_copy"
    /\ buffers' = [buffers EXCEPT ![wtarget[w] + 1] = Serialized[warg[w]]]
    /\ pc' = [pc EXCEPT ![w] = "w_flip"]
    /\ ret' = NoResult
    /\ UNCHANGED <<ctor, active_index, size, gates, wlocals, rlocals, hist>>

\* line 165
WriteFlip(w) ==
    /\ pc[w] = "w_flip"
    /\ active_index' = FlippedIndex(active_index)
    /\ nwrites' = nwrites + 1
    /\ last_arr' = warg[w]
    /\ rfresh' = [r \in Readers |-> FALSE]
    /\ pc' = [pc EXCEPT ![w] = "w_release"]
    /\ ret' = NoResult
    /\ UNCHANGED <<ctor, buffers, size, gates, wlocals, ridx, rseen, rval, ndrops>>

\* lines 166-167
WriteReturn(w) ==
    /\ pc[w] = "w_release"
    /\ release_write_permit
    /\ pc' = [pc EXCEPT ![w] = "idle"]
    /\ ret' = [op |-> "write", kind |-> "Ok"]
    /\ warg' = [warg EXCEPT ![w] = NoArray]
    /\ wtarget' = [wtarget EXCEPT ![w] = 0]
    /\ UNCHANGED <<ctor, buffers, active_index, size, read_permits, rwait,
                   rlocals, hist>>

\* ------------------------------------------------------------- read
\* line 183 reading the active segment
read_index_active(ai) == ai

\* line 183: let read_index = 1 - self.active_index
read_index(ai) == 1 - ai

\* a thread calls read()
ReadCall(r) ==
    /\ phase = "live"
    /\ pc[r] = "idle"
    /\ pc' = [pc EXCEPT ![r] = "r_acquire"]
    /\ rfresh' = [rfresh EXCEPT ![r] = TRUE]
    /\ ret' = NoResult
    /\ UNCHANGED <<ctor, chan, rwait, wwait, wlocals, ridx, rseen, rval, hist>>

\* line 184 on an empty Vec: index out of bounds, the thread panics
ReadIndexPanics(r) ==
    /\ pc[r] = "r_index"
    /\ read_index(active_index) >= Len(buffers)
    /\ pc' = [pc EXCEPT ![r] = "panicked"]
    /\ rfresh' = [rfresh EXCEPT ![r] = FALSE]
    /\ ret' = NoResult
    /\ UNCHANGED <<ctor, chan, rwait, wwait, wlocals, ridx, rseen, rval, hist>>

\* lines 183-191: the slice over the inactive segment is taken
ReadSliceBegin(r) ==
    /\ pc[r] = "r_index"
    /\ read_index(active_index) < Len(buffers)
    /\ ridx' = [ridx EXCEPT ![r] = read_index(active_index)]
    /\ rseen' = [rseen EXCEPT ![r] =
                   {buffers[read_index(active_index) + 1]}
                   \cup {Serialized[warg[w]] : w \in Copying(read_index(active_index))}]
    /\ pc' = [pc EXCEPT ![r] = "r_read"]
    /\ ret' = NoResult
    /\ UNCHANGED <<ctor, chan, rwait, wwait, wlocals, rval, rfresh, hist>>

\* lines 192-193, Err: `?` returns at once with a SerializationError
ReadDeserializeFails(r) ==
    /\ pc[r] = "r_read"
    /\ \E b \in Readable(rseen[r], size) :
          /\ ~Deserialize(b).ok
          /\ ret' = [op |-> "read", kind |-> "SerializationError",
                     msg |-> Deserialize(b).msg, expected |-> size, actual |-> Len(b)]
    /\ pc' = [pc EXCEPT ![r] = "idle"]
    /\ rseen' = [rseen EXCEPT ![r] = {}]
    /\ ridx' = [ridx EXCEPT ![r] = 0]
    /\ rfresh' = [rfresh EXCEPT ![r] = FALSE]
    /\ UNCHANGED <<ctor, chan, rwait, wwait, wlocals, rval, hist>>

\* line 192, Ok: the bytes read decode to an array
ReadDeserializeOk(r) ==
    /\ pc[r] = "r_read"
    /\ \E b \in Readable(rseen[r], size) :
          /\ Deserialize(b).ok
          /\ rval' = [rval EXCEPT ![r] = Deserialize(b).arr]
    /\ pc' = [pc EXCEPT ![r] = "r_release"]
    /\ rseen' = [rseen EXCEPT ![r] = {}]
    /\ ret' = NoResult
    /\ UNCHANGED <<ctor, chan, rwait, wwait, wlocals, ridx, rfresh, hist>>

\* lines 194-195
ReadReturn(r) ==
    /\ pc[r] = "r_release"
    /\ release_read_permit
    /\ pc' = [pc EXCEPT ![r] = "idle"]
    /\ ret' = [op |-> "read", kind |-> "Ok", arr |-> rval[r]]
    /\ rval' = [rval EXCEPT ![r] = NoArray]
    /\ ridx' = [ridx EXCEPT ![r] = 0]
    /\ rfresh' = [rfresh EXCEPT ![r] = FALSE]
    /\ UNCHANGED <<ctor, buffers, active_index, size, write_permits, wwait,
                   wlocals, rseen, hist>>

\* ------------------------------------------------------------- size, drop
get_memory_size == size

\* a drain that releases only the first segment
drain_first(b) == IF b = <<>> THEN b ELSE Tail(b)

\* self.buffers.drain(..), every element dropped
drain(b) == <<>>

\* the public drop(&mut self): called by the owner for teardown, with no
\* write() or read() in progress on another thread; the object and its other
\* fields stay, so write() and read() can still be called afterwards
Drop ==
    /\ phase = "live"
    /\ ndrops < MaxDrops
    /\ \A t \in Threads : pc[t] \in {"idle", "panicked"}
    /\ buffers' = drain(buffers)
    /\ regions' = {i \in regions : i < Len(drain(buffers))}
    /\ ndrops' = ndrops + 1
    /\ ret' = NoResult
    /\ UNCHANGED <<phase, cfg_shape, active_index, size, gates, pc,
                   wlocals, rlocals, nwrites, last_arr>>

\* ------------------------------------------------------------- specification
Next ==
    \/ New
    \/ \E w \in Writers : \E a \in Arrays : WriteCall(w, a)
    \/ \E w \in Writers : acquire_write_permit(w)
    \/ \E w \in Writers : WriteSerializeFails(w)
    \/ \E w \in Writers : WriteInvalidSize(w)
    \/ \E w \in Writers : WriteIndexPanics(w)
    \/ \E w \in Writers : WriteCopyBegin(w)
    \/ \E w \in Writers : WriteCopyEnd(w)
    \/ \E w \in Writers : WriteFlip(w)
    \/ \E w \in Writers : WriteReturn(w)
    \/ \E r \in Readers : ReadCall(r)
    \/ \E r \in Readers : acquire_read_permit(r)
    \/ \E r \in Readers : ReadIndexPanics(r)
    \/ \E r \in Readers : ReadSliceBegin(r)
    \/ \E r \in Readers : ReadDeserializeFails(r)
    \/ \E r \in Readers : ReadDeserializeOk(r)
    \/ \E r \in Readers : ReadReturn(r)
    \/ \E t \in Threads : SpuriousWakeup(t)
    \/ Drop

Spec == Init /\ [][Next]_vars

\* scheduling: a thread that is runnable inside acquire (it holds or can
\* take the mutex and is not parked in cvar.wait) eventually runs its check
\* of the permit; calls, drop() and spurious wake-ups are never forced
FairSpec ==
    /\ Spec
    /\ \A w \in Writers : WF_vars(acquire_write_permit(w))
    /\ \A r \in Readers : WF_vars(acquire_read_permit(r))

\* ------------------------------------------------------------- properties
\* threads between a completed acquire and the matching release
WriteHolders == {w \in Writers : pc[w] \in {"w_body", "w_copy", "w_flip", "w_release"}}
ReadHolders == {r \in Readers : pc[r] \in {"r_index", "r_read", "r_release"}}

C2_SizeEnforcement ==
    [][\A w \in Writers :
          (/\ pc[w] = "w_body" /\ pc'[w] # "w_body"
           /\ Len(Serialized[warg[w]]) # size
           /\ ret'.kind # "SerializationError")
          => /\ ret' = [op |-> "write", kind |-> "InvalidSize", expected |-> size,
                        actual |-> Len(Serialized[warg[w]])]
             /\ pc'[w] = "idle"
             /\ write_permits'
             /\ active_index' = active_index
             /\ buffers' = buffers]_vars

C2_Witness ==
    /\ ret.op = "write" /\ ret.kind = "InvalidSize"
    /\ ret.expected = 42 /\ ret.actual = 43
    /\ nwrites = 1 /\ write_permits

\* C3: active_index is 0 or 1 and equals (number of successful writes) mod 2;
\* write number k copies into segment (k-1) mod 2 and that segment then holds
\* its data; a read between write k and write k+1 reads segment (k-1) mod 2.
C3_BufferAlternation ==
    phase = "live" =>
        /\ active_index \in {0, 1}
        /\ active_index = nwrites % 2
        /\ \A w \in Writers :
              /\ pc[w] = "w_copy" => wtarget[w] = nwrites % 2
              /\ pc[w] = "w_flip" =>
                    buffers[(nwrites % 2) + 1] = Serialized[warg[w]]
              /\ pc[w] = "w_release" =>
                    buffers[((nwrites - 1) % 2) + 1] = Serialized[warg[w]]
        /\ (nwrites >= 1 /\ ndrops = 0) =>
              buffers[((nwrites - 1) % 2) + 1] = Serialized[last_arr]
        /\ \A r \in Readers :
              (rfresh[r] /\ nwrites >= 1 /\ pc[r] \in {"r_read", "r_release"}) =>
                  /\ ridx[r] = (nwrites - 1) % 2
                  /\ pc[r] = "r_read" => rseen[r] = {buffers[ridx[r] + 1]}
                  /\ pc[r] = "r_release" => Serialize(rval[r]) = buffers[ridx[r] + 1]

C3_Witness ==
    /\ nwrites = 2 /\ active_index = 0
    /\ \E r \in Readers : pc[r] = "r_release" /\ rfresh[r] /\ ridx[r] = 1
    /\ \E w \in Writers : pc[w] = "w_release"

\* C4: no reader reads the bytes of a segment while a writer copies into
\* that same segment.
C4_NoReadOfSegmentMidWrite ==
    \A i \in {0, 1} : Copying(i) = {} \/ Reading(i) = {}

\* C5: at most one writer is between acquire_write_permit and
\* release_write_permit, and while one is the permit is unavailable.
C5_WriterMutualExclusion ==
    /\ Cardinality(WriteHolders) <= 1
    /\ WriteHolders # {} => ~write_permits

C5_Witness ==
    \E w \in WriteHolders : \E v \in wwait : v # w /\ pc[w] = "w_copy"

\* C6: at most read_capacity readers are between acquire_read_permit and
\* release_read_permit, and while that many are no permit is left.
C6_ReadConcurrencyBound ==
    /\ Cardinality(ReadHolders) <= read_capacity
    /\ Cardinality(ReadHolders) = read_capacity => read_permits = 0

C6_Witness ==
    \E r \in ReadHolders : \E q \in rwait : q # r /\ pc[r] = "r_read"

\* C7: when a read() has just returned an error, the ReadPermit it took is
\* back: the counter is the capacity minus the reads still holding a permit.
C7_FailedReadReleasesPermit ==
    (ret.op = "read" /\ ret.kind # "Ok") =>
        read_permits = read_capacity - Cardinality(ReadHolders)

\* C8: an error returned by read() is a DeserializationError.
C8_ReadErrorIsDeserialization ==
    (ret.op = "read" /\ ret.kind # "Ok") => ret.kind = "DeserializationError"

\* C9: in every state of a constructed channel get_memory_size() is the
\* serialized length of the zero sample of the shape given to new, which is
\* base_size + extra_size.
C9_SizeInvariance ==
    phase = "live" =>
        /\ get_memory_size = Len(Serialize(Zeros(cfg_shape)))
        /\ get_memory_size =
              base_size_of(cfg_shape)
              + (Len(Serialize(Zeros(cfg_shape))) - base_size_of(cfg_shape))

C9_Witness ==
    /\ phase = "live" /\ cfg_shape = <<1, 1, 2>> /\ get_memory_size = 43
    /\ nwrites >= 1 /\ ndrops >= 1

\* C10: a call of drop() leaves the segment list empty and every region
\* released, and changes neither size, active_index nor a permit; a call on
\* an already drained channel changes nothing at all.
C10_DropIdempotent ==
    [][ndrops' = ndrops + 1 =>
          /\ buffers' = <<>>
          /\ regions' = {}
          /\ UNCHANGED <<size, active_index, read_permits, write_permits>>
          /\ ndrops >= 1 => UNCHANGED <<buffers, regions>>]_vars

C10_Witness ==
    ndrops = 2 /\ buffers = <<>> /\ regions = {} /\ nwrites >= 1

\* C11: when a write() has just returned, with Ok, with InvalidSize or with
\* a SerializationError, the WritePermit is available again.
C11_WritePermitFreedOnReturn ==
    ret.op = "write" => write_permits

\* C12: while write() and read() can be called, after drop() too, the channel
\* holds exactly two segments of `size` bytes, and no call has aborted on the
\* index into buffers.
C12_SegmentsPersist ==
    phase = "live" =>
        /\ Len(buffers) = 2
        /\ \A i \in 1..Len(buffers) : Len(buffers[i]) = size
        /\ \A t \in Threads : pc[t] # "panicked"

\* C13: no step of a read() changes active_index, size, a byte of a segment
\* or the WritePermit, and the step on which a read() returns, with Ok or
\* with an error, puts back the ReadPermit its acquire took.
C13_ReadHasNoEffect ==
    [][\A r \in Readers :
          pc'[r] # pc[r] =>
              /\ UNCHANGED <<active_index, size, buffers, write_permits>>
              /\ (r \in ReadHolders /\ pc'[r] = "idle") =>
                    read_permits' = read_permits + 1]_vars

\* C14: whatever the readers hold, a writer at acquire_write_permit that
\* finds the WritePermit available can take it, and a writer holding it can
\* take its next step up to the return; whatever the writers hold, the same
\* is true of a reader and the ReadPermit.
C14_GatesIndependent ==
    /\ \A w \in Writers :
          /\ (pc[w] = "w_acquire" /\ w \notin wwait /\ write_permits) =>
                ENABLED (acquire_write_permit(w) /\ pc'[w] = "w_body")
          /\ (pc[w] = "w_body" /\ Len(Serialized[warg[w]]) # size) =>
                ENABLED WriteInvalidSize(w)
          /\ (pc[w] = "w_body" /\ Len(Serialized[warg[w]]) = size /\ ndrops = 0) =>
                ENABLED WriteCopyBegin(w)
          /\ pc[w] = "w_copy" => ENABLED WriteCopyEnd(w)
          /\ pc[w] = "w_flip" => ENABLED WriteFlip(w)
          /\ pc[w] = "w_release" => ENABLED WriteReturn(w)
    /\ \A r \in Readers :
          /\ (pc[r] = "r_acquire" /\ r \notin rwait /\ read_permits # 0) =>
                ENABLED (acquire_read_permit(r) /\ pc'[r] = "r_index")
          /\ (pc[r] = "r_index" /\ ndrops = 0) => ENABLED ReadSliceBegin(r)
          /\ pc[r] = "r_read" =>
                ENABLED (ReadDeserializeOk(r) \/ ReadDeserializeFails(r))
          /\ pc[r] = "r_release" => ENABLED ReadReturn(r)

\* one read and one write are both between acquire and release, the writer
\* having taken its permit while the reader held the ReadPermit
C14_Witness ==
    \E r \in Readers : \E w \in Writers :
        /\ pc[r] = "r_read" /\ read_permits = 0
        /\ pc[w] = "w_copy" /\ ~write_permits
        /\ wtarget[w] # ridx[r]

\* C15: when new has just returned Ok the channel holds the two regions 0
\* and 1, in that order, both of `size` bytes, with active_index 0, the
\* WritePermit available and the ReadPermit counter at 1; when it has
\* returned an error (serialization of the sample, or creation of a region)
\* there is no channel; and after a failed new no region is allocated,
\* whichever creation failed, and no call is ever made on a channel.
C15_ConstructionAllOrNothing ==
    /\ (ret.op = "new" /\ ret.kind = "Ok") =>
          /\ phase = "live"
          /\ regions = {0, 1}
          /\ Len(buffers) = 2
          /\ Len(buffers[1]) = size /\ Len(buffers[2]) = size
          /\ size = Len(Serialize(Zeros(cfg_shape)))
          /\ active_index = 0
          /\ write_permits
          /\ read_permits = 1
    /\ (ret.op = "new" /\ ret.kind # "Ok") =>
          /\ phase = "failed"
          /\ ret.kind \in {"SerializationError", "ShmemError"}
    /\ phase = "failed" =>
          /\ regions = {}
          /\ buffers = <<>>
          /\ ret.op = "new" /\ ret.kind # "Ok"
          /\ \A t \in Threads : pc[t] = "idle"
    /\ phase = "init" => regions = {} /\ buffers = <<>>

\* creating the second region has failed and the first one is released
C15_Witness ==
    /\ phase = "failed"
    /\ ret = [op |-> "new", kind |-> "ShmemError", at |-> 1]
    /\ regions = {}

\* C16: no thread is parked in wait while its permit is available (a release
\* sets the permit and wakes every waiter in one critical section, and an
\* acquire parks only after finding the permit taken); and under fair
\* scheduling an available permit with a thread at acquire is eventually
\* claimed.
C16_NoLostWakeup ==
    /\ [](write_permits => wwait = {})
    /\ [](read_permits > 0 => rwait = {})
    /\ (write_permits /\ \E w \in Writers : pc[w] = "w_acquire") ~> ~write_permits
    /\ (read_permits > 0 /\ \E r \in Readers : pc[r] = "r_acquire") ~> (read_permits = 0)

\* a write has just returned and released the permit another writer waits for
C16_Witness ==
    /\ ret.op = "write" /\ ret.kind = "Ok"
    /\ write_permits /\ wwait = {}
    /\ \E w \in Writers : pc[w] = "w_acquire"

\* the rounds of a starvation: reader r stays in acquire_read_permit while
\* reader q reads again and again, on a channel that holds a written array
\* and on which no writer is active
StarveQuiet ==
    /\ phase = "live" /\ ndrops = 0 /\ nwrites >= 1
    /\ \A w \in Writers : pc[w] = "idle"

\* r has been woken by q's release and q is back outside read()
StarveWoken(r, q) ==
    /\ StarveQuiet
    /\ pc[r] = "r_acquire" /\ r \notin rwait
    /\ pc[q] = "idle" /\ read_permits = 1

\* q has called read() again; both are runnable in acquire
StarveRace(r, q) ==
    /\ StarveQuiet
    /\ pc[r] = "r_acquire" /\ r \notin rwait
    /\ pc[q] = "r_acquire" /\ q \notin rwait /\ rfresh[q] /\ read_permits = 1

\* q, which called later, has taken the permit
StarveOvertaken(r, q) ==
    /\ StarveQuiet
    /\ pc[r] = "r_acquire" /\ r \notin rwait
    /\ pc[q] = "r_index" /\ rfresh[q] /\ read_permits = 0

\* r has run, found no permit and is parked again while q reads
StarveParked(r, q, at) ==
    /\ StarveQuiet
    /\ pc[r] = "r_acquire" /\ r \in rwait
    /\ pc[q] = at /\ (at # "r_release" => rfresh[q]) /\ read_permits = 0

\* the same rounds on the write gate: writer w stays in acquire_write_permit
\* while writer v calls write() with an array of another size again and again
StarveWriteWoken(w, v) ==
    /\ phase = "live" /\ nwrites + 1 < MaxWrites
    /\ pc[w] = "w_acquire" /\ w \notin wwait
    /\ pc[v] = "idle" /\ write_permits

StarveWriteRace(w, v) ==
    /\ phase = "live" /\ nwrites + 1 < MaxWrites
    /\ pc[w] = "w_acquire" /\ w \notin wwait
    /\ pc[v] = "w_acquire" /\ v \notin wwait /\ write_permits
    /\ Len(Serialized[warg[v]]) # size

StarveWriteOvertaken(w, v) ==
    /\ phase = "live" /\ nwrites + 1 < MaxWrites
    /\ pc[w] = "w_acquire" /\ w \notin wwait
    /\ pc[v] = "w_body" /\ ~write_permits
    /\ Len(Serialized[warg[v]]) # size

StarveWriteParked(w, v) ==
    /\ phase = "live" /\ nwrites + 1 < MaxWrites
    /\ pc[w] = "w_acquire" /\ w \in wwait
    /\ pc[v] = "w_body" /\ ~write_permits
    /\ Len(Serialized[warg[v]]) # size

\* C17: the gates do not order their acquirers. From every state in which a
\* thread has been woken in acquire while another thread is outside its
\* call, the other thread can call again, take the permit first although it
\* called later, let the woken thread run and park again, finish and release,
\* which leads back to such a state: every round is possible from the round
\* before, so the rounds form an execution in which both threads run again
\* and again and the first one never obtains the permit.
C17_NoFairnessGuarantee ==
    /\ \A r \in Readers : \A q \in Readers \ {r} :
          /\ StarveWoken(r, q) => ENABLED (ReadCall(q) /\ StarveRace(r, q)')
          /\ StarveRace(r, q) =>
                ENABLED (acquire_read_permit(q) /\ StarveOvertaken(r, q)')
          /\ StarveOvertaken(r, q) =>
                ENABLED (acquire_read_permit(r) /\ StarveParked(r, q, "r_index")')
          /\ StarveParked(r, q, "r_index") =>
                ENABLED (ReadSliceBegin(q) /\ StarveParked(r, q, "r_read")')
          /\ StarveParked(r, q, "r_read") =>
                ENABLED (ReadDeserializeOk(q) /\ StarveParked(r, q, "r_release")')
          /\ StarveParked(r, q, "r_release") =>
                ENABLED (ReadReturn(q) /\ StarveWoken(r, q)')
    /\ \A w \in Writers : \A v \in Writers \ {w} :
          /\ StarveWriteWoken(w, v) =>
                ENABLED ((\E a \in Arrays : WriteCall(v, a)) /\ StarveWriteRace(w, v)')
          /\ StarveWriteRace(w, v) =>
                ENABLED (acquire_write_permit(v) /\ StarveWriteOvertaken(w, v)')
          /\ StarveWriteOvertaken(w, v) =>
                ENABLED (acquire_write_permit(w) /\ StarveWriteParked(w, v)')
          /\ StarveWriteParked(w, v) =>
                ENABLED (WriteInvalidSize(v) /\ StarveWriteWoken(w, v)')

\* a round has been completed: q has just returned from a read and r, which
\* was waiting, is runnable in acquire with the permit available
C17_Witness ==
    /\ ret.op = "read" /\ ret.kind = "Ok"
    /\ \E r \in Readers : \E q \in Readers \ {r} : StarveWoken(r, q)

\* C18: on a constructed channel the ReadPermit counter lies between 0 and
\* the capacity and is the capacity minus the number of reads between acquire
\* and release, and the WritePermit is unavailable exactly when one write is
\* between acquire and release.
C18_PermitConservation ==
    phase = "live" =>
        /\ read_permits \in 0..read_capacity
        /\ read_permits = read_capacity - Cardinality(ReadHolders)
        /\ ~write_permits <=> Cardinality(WriteHolders) = 1

====
